---- MODULE Spec2Model ----
(***************************************************************************)
(* Word of the Day MCP server (src/src/index.ts).                          *)
(*                                                                         *)
(* A JavaScript string is modelled as a sequence of tokens (Str): a token  *)
(* is either a run of URL-unreserved characters or one single other        *)
(* character, so that concatenation is \o, the empty string is << >> and   *)
(* encodeURIComponent acts token by token.                                  *)
(***************************************************************************)
EXTENDS Integers, Sequences, FiniteSets, TLC

VARIABLES calls, concurrent

vars == << calls, concurrent >>

NL == "\n"

---------------------------------------------------------------------------
(* JavaScript values *)

\* an optional string property: absent (undefined) or a string
None == [has |-> FALSE, s |-> << >>]

Some(s) == [has |-> TRUE, s |-> s]

\* JavaScript truthiness of an optional string: present and not ""
Truthy(o) == o.has /\ o.s # << >>

\* an argument value as the host may send it
JSUndefined == [t |-> "undefined", s |-> << >>]

JSString(s) == [t |-> "string", s |-> s]

JSNumber(s) == [t |-> "number", s |-> s]

\* request.params.arguments: absent, or an object with some of the keys
NoArguments ==
  [t |-> "undefined", word |-> JSUndefined, language |-> JSUndefined,
   difficulty |-> JSUndefined]

ArgsObject(w, l, d) ==
  [t |-> "object", word |-> w, language |-> l, difficulty |-> d]

RECURSIVE Join(_, _)
\* Array.prototype.join on an array of strings
Join(strs, sep) ==
  IF Len(strs) = 0 THEN << >>
  ELSE IF Len(strs) = 1 THEN strs[1]
  ELSE strs[1] \o sep \o Join(Tail(strs), sep)

\* encodeURIComponent on one token: " ", "/", "?" and "&" are escaped
EncodeToken(tok) ==
  CASE tok = " " -> "%20"
    [] tok = "/" -> "%2F"
    [] tok = "?" -> "%3F"
    [] tok = "&" -> "%26"
    [] OTHER -> tok

encodeURIComponent(s) == [i \in 1..Len(s) |-> EncodeToken(s[i])]

---------------------------------------------------------------------------
(* Validation schemas *)

ParseOk(w, l, d) == [ok |-> TRUE, word |-> w, language |-> l, difficulty |-> d,
                     message |-> << >>]

ParseFail(msg) == [ok |-> FALSE, word |-> << >>, language |-> None,
                   difficulty |-> None, message |-> msg]

\* the message of the validator's error: the list of its issues
ZodMessage(issues) == <<"[">> \o Join(issues, <<",">>) \o <<"]">>

Issue(path, msg) == <<"{path:", path, ",message:">> \o msg \o <<"}">>

StringIssues(path, v) ==
  IF v.t = "string" THEN << >>
  ELSE IF v.t = "undefined" THEN << Issue(path, <<"Required">>) >>
  ELSE << Issue(path, <<"Expected string, received ", v.t>>) >>

OptionalStringIssues(path, v) ==
  IF v.t = "undefined" THEN << >> ELSE StringIssues(path, v)

\* the word check without its minimum length
WordIssuesNoMin(v) == StringIssues("word", v)

WordIssues(v) ==
  IF v.t = "string" /\ v.s = << >>
    THEN << Issue("word", <<"Word cannot be empty">>) >>
    ELSE StringIssues("word", v)

GetDefinitionArgsSchema(args) ==
  IF args.t # "object" THEN ParseFail(ZodMessage(<< Issue("", <<"Required">>) >>))
  ELSE LET issues == WordIssues(args.word)
                       \o OptionalStringIssues("language", args.language)
       IN IF issues # << >> THEN ParseFail(ZodMessage(issues))
          ELSE ParseOk(args.word.s,
                       IF args.language.t = "undefined" THEN None
                       ELSE Some(args.language.s),
                       None)

Difficulties == { <<"easy">>, <<"medium">>, <<"hard">> }

DifficultyIssues(v) ==
  IF v.t = "undefined" THEN << >>
  ELSE IF v.t = "string" /\ v.s \in Difficulties THEN << >>
  ELSE IF v.t = "string"
    THEN << Issue("difficulty", <<"Invalid enum value, received ">> \o v.s) >>
  ELSE StringIssues("difficulty", v)

GetRandomWordArgsSchema(args) ==
  IF args.t # "object" THEN ParseFail(ZodMessage(<< Issue("", <<"Required">>) >>))
  ELSE LET issues == DifficultyIssues(args.difficulty)
       IN IF issues # << >> THEN ParseFail(ZodMessage(issues))
          ELSE ParseOk(<< >>, None,
                       IF args.difficulty.t = "undefined" THEN None
                       ELSE Some(args.difficulty.s))

---------------------------------------------------------------------------
(* Formatting of one dictionary entry *)

\* joining the phonetics texts without dropping the empty ones
PhoneticTextsUnfiltered(phonetics) ==
  LET kept == SelectSeq(phonetics, LAMBDA p : p.text.has)
  IN [i \in 1..Len(kept) |-> kept[i].text.s]

\* entry.phonetics.filter(p => p.text).map(p => p.text)
PhoneticTexts(phonetics) ==
  LET kept == SelectSeq(phonetics, LAMBDA p : Truthy(p.text))
  IN [i \in 1..Len(kept) |-> kept[i].text.s]

PronunciationLine(entry) ==
  IF Truthy(entry.phonetic)
    THEN <<"**Pronunciation:** ">> \o entry.phonetic.s \o <<NL, NL>>
  ELSE IF Len(entry.phonetics) > 0
    THEN LET phoneticTexts == Join(PhoneticTexts(entry.phonetics), <<", ">>)
         IN IF phoneticTexts # << >>
              THEN <<"**Pronunciation:** ">> \o phoneticTexts \o <<NL, NL>>
              ELSE << >>
  ELSE << >>

OriginLine(entry) ==
  IF Truthy(entry.origin)
    THEN <<"**Origin:** ">> \o entry.origin.s \o <<NL, NL>>
    ELSE << >>

DefinitionLines(def, defIndex) ==
  <<"   ", ToString(defIndex + 1), ". ">> \o def.definition \o <<NL>>
  \o (IF Truthy(def.example)
        THEN <<"      *Example: \"">> \o def.example.s \o <<"\"*", NL>>
        ELSE << >>)
  \o (IF Len(def.synonyms) > 0
        THEN <<"      *Synonyms: ">> \o Join(def.synonyms, <<", ">>) \o <<"*", NL>>
        ELSE << >>)
  \o (IF Len(def.antonyms) > 0
        THEN <<"      *Antonyms: ">> \o Join(def.antonyms, <<", ">>) \o <<"*", NL>>
        ELSE << >>)

RECURSIVE DefinitionsFrom(_, _)
\* meaning.definitions.forEach, from 0-based index defIndex on
DefinitionsFrom(defs, defIndex) ==
  IF defIndex >= Len(defs) THEN << >>
  ELSE DefinitionLines(defs[defIndex + 1], defIndex)
         \o DefinitionsFrom(defs, defIndex + 1)

MeaningBlock(meaning, index) ==
  <<ToString(index + 1), ". **">> \o meaning.partOfSpeech \o <<"**", NL>>
  \o DefinitionsFrom(meaning.definitions, 0)
  \o <<NL>>

RECURSIVE MeaningsFrom(_, _)
\* entry.meanings.forEach, from 0-based index on
MeaningsFrom(meanings, index) ==
  IF index >= Len(meanings) THEN << >>
  ELSE MeaningBlock(meanings[index + 1], index) \o MeaningsFrom(meanings, index + 1)

\* entry.phonetics.filter(p => p.audio).map(p => p.audio).filter(Boolean)
AudioLinks(phonetics) ==
  LET kept == SelectSeq(phonetics, LAMBDA p : Truthy(p.audio))
  IN [i \in 1..Len(kept) |-> kept[i].audio.s]

RECURSIVE AudioLinesFrom(_, _)
AudioLinesFrom(audioLinks, index) ==
  IF index >= Len(audioLinks) THEN << >>
  ELSE <<ToString(index + 1), ". ">> \o audioLinks[index + 1] \o <<NL>>
         \o AudioLinesFrom(audioLinks, index + 1)

AudioSection(entry) ==
  LET audioLinks == AudioLinks(entry.phonetics)
  IN IF Len(audioLinks) > 0
       THEN <<"**Audio Pronunciation:**", NL>> \o AudioLinesFrom(audioLinks, 0)
       ELSE << >>

\* the text built for one entry
FormatEntry(entry) ==
  <<"**">> \o entry.word \o <<"**", NL, NL>>
  \o PronunciationLine(entry)
  \o OriginLine(entry)
  \o <<"**Meanings:**", NL, NL>>
  \o MeaningsFrom(entry.meanings, 0)
  \o AudioSection(entry)

---------------------------------------------------------------------------
(* How a piece of an async function ends: it returns a tool result, throws, *)
(* or suspends on the fetch or on response.json()                           *)

Return(text) == [kind |-> "return", text |-> text, word |-> << >>, language |-> << >>]

Throw(message) == [kind |-> "throw", text |-> message, word |-> << >>, language |-> << >>]

AwaitFetch(word, language) ==
  [kind |-> "fetch", text |-> << >>, word |-> word, language |-> language]

AwaitJson == [kind |-> "json", text |-> << >>, word |-> << >>, language |-> << >>]

\* what the network delivers to a fetch
NoResponse == [kind |-> "none", status |-> 0, statusText |-> << >>, cause |-> << >>]

HttpResponse(status, statusText) ==
  [kind |-> "response", status |-> status, statusText |-> statusText, cause |-> << >>]

FetchRejects(cause) ==
  [kind |-> "reject", status |-> 0, statusText |-> << >>, cause |-> cause]

\* Response.ok
ResponseOk(response) == response.status >= 200 /\ response.status <= 299

\* what response.json() delivers
NoBody == [kind |-> "none", json |-> [t |-> "null", v |-> << >>], cause |-> << >>]

JsonBody(json) == [kind |-> "json", json |-> json, cause |-> << >>]

JsonRejects(cause) ==
  [kind |-> "reject", json |-> [t |-> "null", v |-> << >>], cause |-> cause]

JsonNull == [t |-> "null", v |-> << >>]

JsonArray(entries) == [t |-> "array", v |-> entries]

JsonObject == [t |-> "object", v |-> << >>]

---------------------------------------------------------------------------
(* getWordDefinition *)

Url(language, word) ==
  <<"https://api.dictionaryapi.dev/api/v2/entries/">> \o language \o <<"/">>
    \o encodeURIComponent(word)

\* the catch clause around the fetch and the formatting
FetchErrorCatch(word, outcome) ==
  IF outcome.kind = "throw"
    THEN Throw(<<"Failed to fetch definition for \"">> \o word \o <<"\": ">>
               \o outcome.text)
    ELSE outcome

NotFound404Text(word) ==
  <<"No definition found for \"">> \o word
    \o <<"\".", " Please check the spelling or try a different word.">>

NotFoundEmptyText(word) == <<"No definition found for \"">> \o word \o <<"\".">>

\* from the call to the first suspension: validation, then the fetch is issued
getWordDefinitionStart(args) ==
  LET parsed == GetDefinitionArgsSchema(args)
  IN IF ~parsed.ok THEN Throw(parsed.message)
     ELSE AwaitFetch(parsed.word,
                     IF parsed.language.has THEN parsed.language.s ELSE <<"en">>)

\* a 404 handled like any other non-2xx status
ResponseWithout404(word, response) ==
  FetchErrorCatch(word,
    IF response.kind = "reject" THEN Throw(response.cause)
    ELSE IF ~ResponseOk(response)
      THEN Throw(<<"Dictionary API error: ", ToString(response.status), " ">>
                 \o response.statusText)
    ELSE AwaitJson)

\* a network failure answered by fetching again
ResponseWithRetry(word, response) ==
  IF response.kind = "reject" THEN AwaitFetch(word, <<"en">>)
  ELSE FetchErrorCatch(word,
    IF ~ResponseOk(response)
      THEN IF response.status = 404
             THEN Return(NotFound404Text(word))
             ELSE Throw(<<"Dictionary API error: ", ToString(response.status), " ">>
                        \o response.statusText)
    ELSE AwaitJson)

\* from the settling of the fetch to response.json()
getWordDefinitionResponse(word, response) ==
  FetchErrorCatch(word,
    IF response.kind = "reject" THEN Throw(response.cause)
    ELSE IF ~ResponseOk(response)
      THEN IF response.status = 404
             THEN Return(NotFound404Text(word))
             ELSE Throw(<<"Dictionary API error: ", ToString(response.status), " ">>
                        \o response.statusText)
    ELSE AwaitJson)

\* formatting the last entry of the array instead of the first
BodyLastEntry(word, body) ==
  FetchErrorCatch(word,
    IF body.kind = "reject" THEN Throw(body.cause)
    ELSE IF body.json.t = "null" \/ (body.json.t = "array" /\ Len(body.json.v) = 0)
      THEN Return(NotFoundEmptyText(word))
    ELSE IF body.json.t # "array"
      THEN Throw(<<"Cannot read properties of undefined (reading 'word')">>)
    ELSE Return(FormatEntry(body.json.v[Len(body.json.v)])))

\* from the settling of response.json() to the return
getWordDefinitionBody(word, body) ==
  FetchErrorCatch(word,
    IF body.kind = "reject" THEN Throw(body.cause)
    ELSE IF body.json.t = "null" \/ (body.json.t = "array" /\ Len(body.json.v) = 0)
      THEN Return(NotFoundEmptyText(word))
    ELSE IF body.json.t # "array"
      THEN Throw(<<"Cannot read properties of undefined (reading 'word')">>)
    ELSE Return(FormatEntry(body.json.v[1])))

---------------------------------------------------------------------------
(* getRandomWord *)

wordLists ==
  [easy |-> <<"happy", "house", "water", "light", "music", "friend", "smile",
              "peace", "dream", "heart", "love", "hope", "time", "life", "world",
              "nature">>,
   medium |-> <<"serendipity", "eloquent", "resilient", "magnificent", "innovative",
                "perspective", "authentic", "curiosity", "adventure", "harmony",
                "wisdom", "courage", "gratitude", "compassion", "creativity",
                "balance">>,
   hard |-> <<"ephemeral", "ubiquitous", "perspicacious", "surreptitious",
              "magnanimous", "obfuscate", "ameliorate", "propensity", "vicissitude",
              "perspicuity", "sesquipedalian", "grandiloquent", "pusillanimous",
              "truculent", "recalcitrant">>]

\* the grid on which Math.random() is drawn: k / RandomResolution, 0 <= k < it
RandomResolution == 3

Randoms == 0..(RandomResolution - 1)

\* Math.floor(Math.random() * length), for Math.random() = rnd / RandomResolution
RandomIndex(rnd, length) == (rnd * length) \div RandomResolution

\* the difficulty after the destructuring default
EffectiveDifficulty(parsed) ==
  IF parsed.difficulty.has THEN parsed.difficulty.s[1] ELSE "medium"

\* a pick that ignores the tier
RandomWordAnyTier(difficulty, rnd) ==
  LET words == wordLists["medium"]
  IN << words[RandomIndex(rnd, Len(words)) + 1] >>

\* words[Math.floor(Math.random() * words.length)]
RandomWord(difficulty, rnd) ==
  LET words == wordLists[difficulty]
  IN << words[RandomIndex(rnd, Len(words)) + 1] >>

getRandomWordStart(args, rnd) ==
  LET parsed == GetRandomWordArgsSchema(args)
  IN IF ~parsed.ok THEN Throw(parsed.message)
     ELSE getWordDefinitionStart(
            ArgsObject(JSString(RandomWord(EffectiveDifficulty(parsed), rnd)),
                       JSString(<<"en">>), JSUndefined))

---------------------------------------------------------------------------
(* The call-tool request handler *)

GetWordDefinition == <<"get_word_definition">>

GetRandomWord == <<"get_random_word">>

\* a switch whose default falls into the definition lookup
DispatchNoDefault(name, args, rnd) ==
  IF name = GetRandomWord THEN getRandomWordStart(args, rnd)
  ELSE getWordDefinitionStart(args)

\* the switch on the tool name
Dispatch(name, args, rnd) ==
  IF name = GetWordDefinition THEN getWordDefinitionStart(args)
  ELSE IF name = GetRandomWord THEN getRandomWordStart(args, rnd)
  ELSE Throw(<<"Unknown tool: ">> \o name)

\* the handler without its catch clause
CallToolNoCatch(outcome) == outcome

\* the handler's catch clause
CallToolCatch(outcome) ==
  IF outcome.kind = "throw" THEN Return(<<"Error: ">> \o outcome.text) ELSE outcome

---------------------------------------------------------------------------
(* The state: one record per tool call the host may issue.  The server     *)
(* object has no field but the protocol server, so all state of a call is  *)
(* the closure of its handler: locals, the request it sent, what the       *)
(* network delivered to it, and its result.                                 *)

NoResult == [kind |-> "none", text |-> << >>]

IdleCall ==
  [pc |-> "idle", name |-> << >>, args |-> NoArguments, rnd |-> 0,
   word |-> << >>, language |-> << >>, requests |-> << >>,
   response |-> NoResponse, body |-> NoBody, result |-> NoResult]

\* a call is suspended while its fetch or its response.json() is pending
Suspended(call) == call.pc \in {"fetch", "json"}

\* locals kept in one place shared by all calls: a continuation finds the
\* locals of another call that is suspended
SharedFrame(cs, c) ==
  LET others == { d \in DOMAIN cs : d # c /\ Suspended(cs[d]) }
  IN IF others = {} THEN cs[c] ELSE cs[CHOOSE d \in others : TRUE]

\* the closure the continuation of call c runs in
Frame(cs, c) == cs[c]

\* the call after a piece of its handler ended with outcome
Settle(call, outcome) ==
  IF outcome.kind = "fetch"
    THEN [call EXCEPT !.pc = "fetch", !.word = outcome.word,
                      !.language = outcome.language,
                      !.requests = Append(@, Url(outcome.language, outcome.word))]
  ELSE IF outcome.kind = "json"
    THEN [call EXCEPT !.pc = "json"]
  ELSE [call EXCEPT !.pc = "done",
                    !.result = [kind |-> outcome.kind, text |-> outcome.text]]

\* history: the calls that were resumed while another call was suspended
Resumed(c) ==
  IF \E d \in DOMAIN calls : d # c /\ Suspended(calls[d])
    THEN concurrent \cup {c}
    ELSE concurrent

\* Math.random() is drawn only by get_random_word, after its validation
DrawsRandom(name, args) == name = GetRandomWord /\ GetRandomWordArgsSchema(args).ok

\* the host sends tools/call: the handler runs to its first suspension
CallTool(c, name, args, rnd) ==
  /\ calls[c].pc = "idle"
  /\ calls' = [calls EXCEPT ![c] =
       Settle([@ EXCEPT !.name = name, !.args = args, !.rnd = rnd],
              CallToolCatch(Dispatch(name, args, rnd)))]
  /\ UNCHANGED concurrent

\* the fetch of call c settles: a response arrives or the fetch rejects
FetchSettles(c, response) ==
  /\ calls[c].pc = "fetch"
  /\ calls' = [calls EXCEPT ![c] =
       Settle([@ EXCEPT !.response = response],
              CallToolCatch(getWordDefinitionResponse(Frame(calls, c).word, response)))]
  /\ concurrent' = Resumed(c)

\* response.json() of call c settles: the decoded body or a decode failure
JsonSettles(c, body) ==
  /\ calls[c].pc = "json"
  /\ calls' = [calls EXCEPT ![c] =
       Settle([@ EXCEPT !.body = body],
              CallToolCatch(getWordDefinitionBody(Frame(calls, c).word, body)))]
  /\ concurrent' = Resumed(c)

---------------------------------------------------------------------------
(* Inputs *)

SeqsUpTo(S, n) == UNION { [1..k -> S] : k \in 0..n }

ToolNames == { GetWordDefinition, GetRandomWord, <<"get_definition">> }

Hello == JSString(<<"hello">>)

IceCream == JSString(<<"ice", " ", "cream">>)

Arguments ==
  { NoArguments,
    ArgsObject(JSUndefined, JSUndefined, JSUndefined),
    ArgsObject(JSString(<< >>), JSUndefined, JSUndefined),
    ArgsObject(Hello, JSUndefined, JSUndefined),
    ArgsObject(IceCream, JSString(<<"en">>), JSUndefined),
    ArgsObject(Hello, JSString(<<"fr">>), JSUndefined),
    ArgsObject(JSNumber(<<"42">>), JSUndefined, JSUndefined),
    ArgsObject(Hello, JSNumber(<<"42">>), JSUndefined),
    ArgsObject(JSString(<< >>), JSNumber(<<"42">>), JSUndefined),
    ArgsObject(JSUndefined, JSUndefined, JSString(<<"easy">>)),
    ArgsObject(JSUndefined, JSUndefined, JSString(<<"medium">>)),
    ArgsObject(JSUndefined, JSUndefined, JSString(<<"hard">>)),
    ArgsObject(JSUndefined, JSUndefined, JSString(<<"extreme">>)),
    ArgsObject(JSUndefined, JSUndefined, JSNumber(<<"42">>)),
    ArgsObject(Hello, JSUndefined, JSString(<<"hard">>)) }

Responses ==
  { FetchRejects(<<"fetch failed">>),
    HttpResponse(200, <<"OK">>),
    HttpResponse(404, <<"Not Found">>),
    HttpResponse(500, <<"Internal Server Error">>),
    HttpResponse(503, <<"Service Unavailable">>) }

\* the longest phonetics list of an entry
MaxPhonetics == 2

PhoneticInfos ==
  { [text |-> Some(<< >>), audio |-> None],
    [text |-> Some(<<"/h@'l@U/">>), audio |-> Some(<<"//sounds/hello_gb.mp3">>)],
    [text |-> Some(<<"/hE'l@U/">>), audio |-> Some(<< >>)],
    [text |-> None, audio |-> Some(<<"//sounds/hello_us.mp3">>)] }

Phonetics == { None, Some(<< >>), Some(<<"h@'l@U">>) }

Greeting ==
  [definition |-> <<"used as a greeting">>, example |-> Some(<<"hello there!">>),
   synonyms |-> << <<"hi">>, <<"howdy">> >>, antonyms |-> << >>]

Utterance ==
  [definition |-> <<"an utterance of 'hello'">>, example |-> None,
   synonyms |-> << >>, antonyms |-> << <<"goodbye">> >>]

Shout ==
  [definition |-> <<"say or shout 'hello'">>, example |-> Some(<< >>),
   synonyms |-> << >>, antonyms |-> << >>]

HelloMeanings ==
  << [partOfSpeech |-> <<"exclamation">>, definitions |-> <<Greeting, Utterance>>],
     [partOfSpeech |-> <<"verb">>, definitions |-> <<Shout>>] >>

\* origin and meanings of an entry
OriginsAndMeanings ==
  { [origin |-> None, meanings |-> HelloMeanings],
    [origin |-> Some(<<"early 19th century">>), meanings |-> << >>],
    [origin |-> Some(<< >>), meanings |-> <<HelloMeanings[2]>>] }

\* the entries the API may put first
FirstEntries ==
  { [word |-> <<"Hello">>, phonetic |-> p, phonetics |-> ps, origin |-> r.origin,
     meanings |-> r.meanings] :
      p \in Phonetics, ps \in SeqsUpTo(PhoneticInfos, MaxPhonetics), r \in OriginsAndMeanings }

\* further entries (homographs) the API may add after the first
Homograph1 ==
  [word |-> <<"hello">>, phonetic |-> Some(<<"h@'loU">>), phonetics |-> << >>,
   origin |-> Some(<<"variant of hollo">>), meanings |-> <<HelloMeanings[1]>>]

Homograph2 ==
  [word |-> <<"hullo">>, phonetic |-> None,
   phonetics |-> << [text |-> Some(<<"/hV'l@U/">>),
                     audio |-> Some(<<"//sounds/hullo.mp3">>)] >>,
   origin |-> None, meanings |-> HelloMeanings]

LaterEntries == { << >>, <<Homograph2, Homograph1>> }

JsonBodies ==
  { JsonRejects(<<"Unexpected token < in JSON at position 0">>),
    JsonBody(JsonNull), JsonBody(JsonObject), JsonBody(JsonArray(<< >>)) }
  \cup { JsonBody(JsonArray(<<e>> \o t)) : e \in FirstEntries, t \in LaterEntries }

---------------------------------------------------------------------------
(* The server handling one tool call *)

Init == calls = [c \in {1} |-> IdleCall] /\ concurrent = {}

HostCalls ==
  \E c \in DOMAIN calls, name \in ToolNames, args \in Arguments :
    \E rnd \in (IF DrawsRandom(name, args) THEN Randoms ELSE {0}) :
      CallTool(c, name, args, rnd)

FetchDone == \E c \in DOMAIN calls, response \in Responses : FetchSettles(c, response)

JsonDone == \E c \in DOMAIN calls, body \in JsonBodies : JsonSettles(c, body)

Next == HostCalls \/ FetchDone \/ JsonDone

Spec == Init /\ [][Next]_vars

---------------------------------------------------------------------------
(* The server handling several tool calls whose fetches overlap *)

\* the number of tool calls the host has outstanding at once
MaxCalls == 2

HelloEntry ==
  [word |-> <<"Hello">>, phonetic |-> None,
   phonetics |-> << [text |-> Some(<<"/h@'l@U/">>),
                     audio |-> Some(<<"//sounds/hello_gb.mp3">>)] >>,
   origin |-> Some(<<"early 19th century">>), meanings |-> HelloMeanings]

ConcRequests ==
  { <<GetWordDefinition, ArgsObject(Hello, JSUndefined, JSUndefined)>>,
    <<GetWordDefinition, ArgsObject(JSString(<< >>), JSUndefined, JSUndefined)>>,
    <<GetRandomWord, ArgsObject(JSUndefined, JSUndefined, JSUndefined)>>,
    <<(<<"get_definition">>), ArgsObject(Hello, JSUndefined, JSUndefined)>> }

ConcResponses ==
  { FetchRejects(<<"fetch failed">>),
    HttpResponse(200, <<"OK">>),
    HttpResponse(404, <<"Not Found">>) }

ConcJsonBodies ==
  { JsonBody(JsonArray(<< >>)),
    JsonBody(JsonArray(<<HelloEntry>>)),
    JsonBody(JsonArray(<<Homograph2, Homograph1>>)) }

ConcInit == calls = [c \in 1..MaxCalls |-> IdleCall] /\ concurrent = {}

ConcHostCalls ==
  \E c \in DOMAIN calls, req \in ConcRequests :
    \E rnd \in (IF DrawsRandom(req[1], req[2]) THEN Randoms ELSE {0}) :
      CallTool(c, req[1], req[2], rnd)

ConcFetchDone ==
  \E c \in DOMAIN calls, response \in ConcResponses : FetchSettles(c, response)

ConcJsonDone ==
  \E c \in DOMAIN calls, body \in ConcJsonBodies : JsonSettles(c, body)

ConcNext == ConcHostCalls \/ ConcFetchDone \/ ConcJsonDone

ConcSpec == ConcInit /\ [][ConcNext]_vars

---------------------------------------------------------------------------
(* Vocabulary of the properties *)

Active(c) == calls[c].pc # "idle"

Finished(c) == calls[c].pc = "done"

HasErrorPrefix(text) == Len(text) > 0 /\ text[1] = "Error: "

Contains(text, tok) == \E i \in 1..Len(text) : text[i] = tok

UnknownTool(call) == call.name \notin {GetWordDefinition, GetRandomWord}

\* the validator's verdict on the call's arguments
Validation(call) ==
  IF call.name = GetWordDefinition THEN GetDefinitionArgsSchema(call.args)
  ELSE GetRandomWordArgsSchema(call.args)

ValidationFails(call) == ~UnknownTool(call) /\ ~Validation(call).ok

\* a non-2xx status other than 404
ApiError(call) ==
  /\ call.response.kind = "response"
  /\ ~(call.response.status \in 200..299)
  /\ call.response.status # 404

ApiErrorMessage(call) ==
  <<"Dictionary API error: ", ToString(call.response.status), " ">>
    \o call.response.statusText

\* network failure, decode failure, or a body that is no array of entries
FetchFailure(call) ==
  \/ call.response.kind = "reject"
  \/ call.body.kind = "reject"
  \/ call.body.kind = "json" /\ call.body.json.t = "object"

FetchFailureCause(call) ==
  IF call.response.kind = "reject" THEN call.response.cause
  ELSE IF call.body.kind = "reject" THEN call.body.cause
  ELSE <<"Cannot read properties of undefined (reading 'word')">>

FailedToFetch(call, cause) ==
  <<"Failed to fetch definition for \"">> \o call.word \o <<"\": ">> \o cause

Failed(call) ==
  UnknownTool(call) \/ ValidationFails(call) \/ ApiError(call) \/ FetchFailure(call)

\* the message of the failure with which the call's operation ends
FailureMessage(call) ==
  IF UnknownTool(call) THEN <<"Unknown tool: ">> \o call.name
  ELSE IF ValidationFails(call) THEN Validation(call).message
  ELSE IF ApiError(call) THEN FailedToFetch(call, ApiErrorMessage(call))
  ELSE FailedToFetch(call, FetchFailureCause(call))

\* a 2xx response whose body decoded to a JSON array
GotArray(call) ==
  /\ call.response.kind = "response" /\ call.response.status \in 200..299
  /\ call.body.kind = "json" /\ call.body.json.t = "array"

GotEntries(call) == GotArray(call) /\ Len(call.body.json.v) >= 1

GotEmptyArray(call) == GotArray(call) /\ Len(call.body.json.v) = 0

Got404(call) == call.response.kind = "response" /\ call.response.status = 404

\* the result of a whole tool call that runs alone, from its own inputs
AloneResult(name, args, rnd, response, body) ==
  LET started == CallToolCatch(Dispatch(name, args, rnd))
      fetched == CallToolCatch(getWordDefinitionResponse(started.word, response))
      decoded == CallToolCatch(getWordDefinitionBody(started.word, body))
      last == IF started.kind # "fetch" THEN started
              ELSE IF fetched.kind # "json" THEN fetched
              ELSE decoded
  IN [kind |-> last.kind, text |-> last.text]

---------------------------------------------------------------------------
(* C1 *)

---------------------------------------------------------------------------
(* C2 *)

\* C2: when get_word_definition receives a non-2xx status other than 404,
\* the text returned is exactly "Error: Dictionary API error: {status}
\* {statusText}", with nothing else after the "Error: " prefix.
C2_ApiErrorTextIsBare ==
  \A c \in DOMAIN calls :
    (Finished(c) /\ calls[c].name = GetWordDefinition /\ ApiError(calls[c])) =>
      calls[c].result.text = <<"Error: ">> \o ApiErrorMessage(calls[c])

---------------------------------------------------------------------------
(* C3 *)

NoDefinitionFound(word) == <<"No definition found for \"">> \o word \o <<"\".">>

\* C3 as stated: for the same word, a call answered 404 and a call answered
\* 2xx with an empty JSON array return the same text, without "Error:".
C3_NotFoundIndistinguishable ==
  \A c, d \in DOMAIN calls :
    ( /\ Finished(c) /\ Finished(d)
      /\ calls[c].word = calls[d].word
      /\ Got404(calls[c]) /\ GotEmptyArray(calls[d]) ) =>
        /\ calls[c].result.text = calls[d].result.text
        /\ ~HasErrorPrefix(calls[c].result.text)

\* C3 amended: for the same word, both texts are normal results that start
\* with 'No definition found for "{word}".' and carry no "Error:" prefix;
\* the empty-array text is exactly that sentence, and the 404 text is that
\* sentence followed by " Please check the spelling or try a different
\* word.", so the two are distinguishable.
C3_NotFoundSamePrefix ==
  \A c, d \in DOMAIN calls :
    ( /\ Finished(c) /\ Finished(d)
      /\ calls[c].word = calls[d].word
      /\ Got404(calls[c]) /\ GotEmptyArray(calls[d]) ) =>
        /\ calls[c].result.kind = "return" /\ calls[d].result.kind = "return"
        /\ calls[d].result.text = NoDefinitionFound(calls[d].word)
        /\ calls[c].result.text =
             calls[d].result.text
               \o <<" Please check the spelling or try a different word.">>
        /\ ~HasErrorPrefix(calls[c].result.text)
        /\ ~HasErrorPrefix(calls[d].result.text)

C3_Witness ==
  \E c, d \in DOMAIN calls :
    /\ Finished(c) /\ Finished(d)
    /\ calls[c].word = calls[d].word
    /\ Got404(calls[c]) /\ GotEmptyArray(calls[d])
    /\ calls[c].result.text # calls[d].result.text

---------------------------------------------------------------------------
(* C4 *)

EmptyOrMissingWord(args) ==
  args.t = "undefined" \/ args.word.t = "undefined" \/ args.word = JSString(<< >>)

\* C4: a get_word_definition call whose word is "" or missing is finished
\* by its validation: it has issued no HTTP request, and its result is a
\* normal response whose text is "Error: " followed by the validator's
\* message ("Word cannot be empty" for "", "Required" for a missing word).
C4_EmptyWordNeverFetches ==
  \A c \in DOMAIN calls :
    ( /\ Active(c) /\ calls[c].name = GetWordDefinition
      /\ EmptyOrMissingWord(calls[c].args) ) =>
        /\ Finished(c)
        /\ calls[c].requests = << >>
        /\ calls[c].response.kind = "none"
        /\ calls[c].result.kind = "return"
        /\ calls[c].result.text
             = <<"Error: ">> \o GetDefinitionArgsSchema(calls[c].args).message
        /\ calls[c].args.word = JSString(<< >>) =>
             Contains(calls[c].result.text, "Word cannot be empty")
        /\ calls[c].args.word.t = "undefined" =>
             Contains(calls[c].result.text, "Required")

C4_Witness ==
  \E c \in DOMAIN calls :
    /\ Finished(c) /\ calls[c].name = GetWordDefinition
    /\ calls[c].args.t = "object" /\ calls[c].args.word = JSString(<< >>)
    /\ calls[c].args.language.t = "undefined"
    /\ calls[c].requests = << >>
    /\ HasErrorPrefix(calls[c].result.text)

---------------------------------------------------------------------------
(* C5 *)

\* C5: a call whose tool name is neither get_word_definition nor
\* get_random_word is finished at once with the text "Error: Unknown tool:
\* {name}" and has issued no HTTP request, whatever its arguments.
C5_UnknownTool ==
  \A c \in DOMAIN calls :
    (Active(c) /\ UnknownTool(calls[c])) =>
      /\ Finished(c)
      /\ calls[c].result.kind = "return"
      /\ calls[c].result.text = <<"Error: ", "Unknown tool: ">> \o calls[c].name
      /\ calls[c].requests = << >>

C5_Witness ==
  \E c \in DOMAIN calls :
    /\ Finished(c) /\ UnknownTool(calls[c])
    /\ calls[c].args = ArgsObject(Hello, JSUndefined, JSUndefined)
    /\ calls[c].requests = << >>
    /\ calls[c].result.text = <<"Error: ", "Unknown tool: ", "get_definition">>

---------------------------------------------------------------------------
(* C6 *)

\* the arguments get_random_word accepts: an object whose difficulty is
\* omitted or one of the three levels
RandomArgsValid(args) ==
  /\ args.t = "object"
  /\ \/ args.difficulty.t = "undefined"
     \/ args.difficulty.t = "string" /\ args.difficulty.s \in Difficulties

Tier(args) ==
  IF args.difficulty.t = "undefined" THEN "medium" ELSE args.difficulty.s[1]

InTier(word, tier) ==
  \E i \in 1..Len(wordLists[tier]) : word = << wordLists[tier][i] >>

---------------------------------------------------------------------------
(* C7 *)

PassesValidation(call) == ~UnknownTool(call) /\ Validation(call).ok

EntriesUrl == "https://api.dictionaryapi.dev/api/v2/entries/"

\* the word and the language a valid call looks up
LookedUpWord(call) ==
  IF call.name = GetWordDefinition THEN call.args.word.s
  ELSE << wordLists[Tier(call.args)]
            [RandomIndex(call.rnd, Len(wordLists[Tier(call.args)])) + 1] >>

LookedUpLanguage(call) ==
  IF call.name = GetWordDefinition /\ call.args.language.t = "string"
    THEN call.args.language.s
    ELSE <<"en">>

PercentEncoded(word) ==
  [i \in 1..Len(word) |->
     IF word[i] = " " THEN "%20"
     ELSE IF word[i] = "/" THEN "%2F"
     ELSE IF word[i] = "?" THEN "%3F"
     ELSE IF word[i] = "&" THEN "%26"
     ELSE word[i]]

\* C7: no call ever has more than one HTTP GET; from the moment it is
\* accepted and at every later stage (fetch pending, any response, network
\* or decode failure, empty array, finished), a call that passes validation
\* has issued exactly one GET, to entries/{language}/{url-encoded word} with
\* language "en" when absent, and a call that does not has issued none.
C7_SingleFetch ==
  \A c \in DOMAIN calls :
    /\ Len(calls[c].requests) <= 1
    /\ Active(c) =>
         IF PassesValidation(calls[c])
           THEN calls[c].requests =
                  << <<EntriesUrl>> \o LookedUpLanguage(calls[c]) \o <<"/">>
                       \o PercentEncoded(LookedUpWord(calls[c])) >>
           ELSE calls[c].requests = << >>

C7_Witness ==
  \E c \in DOMAIN calls :
    /\ Finished(c) /\ calls[c].response.kind = "reject"
    /\ calls[c].args.word = IceCream
    /\ calls[c].requests = << <<EntriesUrl, "en", "/", "ice", "%20", "cream">> >>

---------------------------------------------------------------------------
(* C8 *)

\* the tokens before the first line break
FirstLine(text) ==
  LET breaks == { i \in 1..Len(text) : text[i] = NL }
  IN IF breaks = {} THEN text
     ELSE SubSeq(text, 1, (CHOOSE i \in breaks : \A j \in breaks : i <= j) - 1)

\* C8: when the API answers 2xx with an array of one or more entries, the
\* result is a normal text whose first line is exactly "**{word of entry
\* 0}**", the word the API returned, and the text is the one the same call
\* gets when the array holds entry 0 alone: no later entry influences it.
C8_FirstEntryOnly ==
  \A c \in DOMAIN calls :
    (Finished(c) /\ GotEntries(calls[c])) =>
      /\ calls[c].result.kind = "return"
      /\ FirstLine(calls[c].result.text)
           = <<"**">> \o calls[c].body.json.v[1].word \o <<"**">>
      /\ calls[c].result =
           AloneResult(calls[c].name, calls[c].args, calls[c].rnd, calls[c].response,
                       JsonBody(JsonArray(<< calls[c].body.json.v[1] >>)))

C8_Witness ==
  \E c \in DOMAIN calls :
    /\ Finished(c) /\ GotEntries(calls[c])
    /\ calls[c].name = GetWordDefinition
    /\ Len(calls[c].body.json.v) = 3
    /\ calls[c].body.json.v[1].word # calls[c].word
    /\ calls[c].body.json.v[2].word # calls[c].body.json.v[1].word
    /\ FirstLine(calls[c].result.text) = <<"**", "Hello", "**">>

---------------------------------------------------------------------------
(* C9 *)

PronunciationLabel == "**Pronunciation:** "

HasPronunciationLine(text) == Contains(text, PronunciationLabel)

\* what follows the label on the pronunciation line
PronunciationOf(text) ==
  LET at == CHOOSE i \in 1..Len(text) : text[i] = PronunciationLabel
      breaks == { i \in (at + 1)..Len(text) : text[i] = NL }
      end == CHOOSE i \in breaks : \A j \in breaks : i <= j
  IN SubSeq(text, at + 1, end - 1)

\* the non-empty phonetics[].text values, in order, joined with ", "
JoinedTexts(entry) ==
  LET nonEmpty == SelectSeq(entry.phonetics,
                            LAMBDA p : p.text.has /\ p.text.s # << >>)
  IN Join([i \in 1..Len(nonEmpty) |-> nonEmpty[i].text.s], <<", ">>)

\* the pronunciation line is `preferred` when `prefer` holds, else the
\* joined texts, else there is none
PronunciationIs(text, prefer, entry) ==
  IF prefer
    THEN HasPronunciationLine(text) /\ PronunciationOf(text) = entry.phonetic.s
  ELSE IF JoinedTexts(entry) # << >>
    THEN HasPronunciationLine(text) /\ PronunciationOf(text) = JoinedTexts(entry)
  ELSE ~HasPronunciationLine(text)

\* C9 as stated: the pronunciation line is the top-level phonetic string
\* when that is present; otherwise the non-empty phonetics texts joined
\* with ", "; otherwise there is no pronunciation line.
C9_PhoneticWhenPresent ==
  \A c \in DOMAIN calls :
    (Finished(c) /\ GotEntries(calls[c])) =>
      PronunciationIs(calls[c].result.text, calls[c].body.json.v[1].phonetic.has,
                      calls[c].body.json.v[1])

\* C9 amended: the pronunciation line is the top-level phonetic string when
\* that is present and not the empty string; otherwise (absent or "") the
\* non-empty phonetics texts joined with ", " in order; and when there is
\* no such text either, no pronunciation line is emitted.
C9_PhoneticWhenNonEmpty ==
  \A c \in DOMAIN calls :
    (Finished(c) /\ GotEntries(calls[c])) =>
      PronunciationIs(calls[c].result.text,
                      calls[c].body.json.v[1].phonetic.has
                        /\ calls[c].body.json.v[1].phonetic.s # << >>,
                      calls[c].body.json.v[1])

C9_Witness ==
  \E c \in DOMAIN calls :
    /\ Finished(c) /\ GotEntries(calls[c])
    /\ calls[c].body.json.v[1].phonetic = Some(<< >>)
    /\ Len(calls[c].body.json.v[1].phonetics) = 2
    /\ calls[c].body.json.v[1].phonetics[1].text = Some(<< >>)
    /\ HasPronunciationLine(calls[c].result.text)
    /\ PronunciationOf(calls[c].result.text) = <<"/h@'l@U/">>

---------------------------------------------------------------------------
(* C10 *)

\* C10: with several calls in flight at once, under every interleaving and
\* completion order, a suspended call holds the word, language and request
\* of its own arguments (and its own random pick), and every finished call
\* has the result the same call produces when run alone on its own
\* arguments, random pick and HTTP outcome.
C10_CallsIndependent ==
  \A c \in DOMAIN calls :
    /\ (Suspended(calls[c]) \/ (Finished(c) /\ PassesValidation(calls[c]))) =>
         /\ calls[c].word = LookedUpWord(calls[c])
         /\ calls[c].language = LookedUpLanguage(calls[c])
         /\ calls[c].requests = << Url(calls[c].language, calls[c].word) >>
    /\ Finished(c) =>
         calls[c].result =
           AloneResult(calls[c].name, calls[c].args, calls[c].rnd,
                       calls[c].response, calls[c].body)

C10_Witness ==
  \E c, d \in DOMAIN calls :
    /\ c # d /\ Finished(c) /\ Finished(d)
    /\ c \in concurrent /\ d \in concurrent
    /\ calls[c].word # calls[d].word
    /\ Got404(calls[c]) /\ GotEntries(calls[d])
    /\ calls[c].name = GetRandomWord /\ calls[d].name = GetWordDefinition

====
